---------------------------- MODULE Spec2Model ----------------------------
(***************************************************************************)
(* Model of the instance generator of llm-pddl (src/generate_instances.py):*)
(* the catalog, the safety-constraint templates, generate_problem with its *)
(* sampling, selection and formatting steps, and the rejection loop        *)
(* generate_one_useful_instance around the external optimal-plan oracle.   *)
(*                                                                         *)
(* A text (an f-string, a joined string) is the sequence of its fragments: *)
(* the literal pieces of the source and the interpolated names, in order.  *)
(* Concatenation of texts is concatenation of fragment sequences.          *)
(* Every call of the random module is a nondeterministic choice over all   *)
(* the values the call can return.                                         *)
(***************************************************************************)
EXTENDS Integers, Sequences, FiniteSets, TLC

VARIABLES
    pc,                          \* position in the program
    num_locations, num_items, num_constraints,   \* arguments of the call
    attempts,                    \* iterations of the while loop started so far
    oracle_calls,                \* invocations of the planner so far
    asked,                       \* texts handed to the planner in the current iteration
    locations, items,            \* generate_problem: the two random samples
    initial_state, items_locations,
    all_safety_constraints, selected_safety_constraints,
    second_call,                 \* result of a repeated call of generate_safety_constraints
    goals, loc_goal_items, holding_goal_items,
    problem, problem_without_constraints,
    init_description, goal_description, constraints_description,
    sol1, sol2,                  \* optimal_solutions_are_equal: the two plans
    useful,
    returned,                    \* the tuple generate_one_useful_instance returned
    error,                       \* the exception that ended the call, or "none"
    world,                       \* a world state: the set of the atoms true in it
    constraint,                  \* the (pddl, desc) pair of a safety constraint
    verdict                      \* whether world satisfies the formula of constraint

vars == <<pc, num_locations, num_items, num_constraints, attempts, oracle_calls,
          locations, items, initial_state, items_locations,
          all_safety_constraints, selected_safety_constraints, second_call,
          goals, loc_goal_items, holding_goal_items,
          problem, problem_without_constraints,
          init_description, goal_description, constraints_description,
          sol1, sol2, useful, returned, error, asked, world, constraint, verdict>>

(***************************************************************************)
(* Bounds of the model.                                                    *)
(***************************************************************************)
\* largest num_items and num_constraints generate_problem is called with
MaxItems == 1
MaxConstraints == 1
\* iterations of the rejection loop that are followed
MaxAttempts == 2
\* longest item list handed to generate_safety_constraints on its own
MaxEnumItems == 3
\* longest item list handed to generate_random_goals on its own
MaxGoalItems == 4

(***************************************************************************)
(* Generic helpers.                                                        *)
(***************************************************************************)
Range(s) == { s[i] : i \in DOMAIN s }

Min(a, b) == IF a <= b THEN a ELSE b

\* sep.join(parts), each part a text (a sequence of fragments)
RECURSIVE Join(_, _)
Join(parts, sep) ==
    IF parts = <<>> THEN <<>>
    ELSE IF Len(parts) = 1 THEN parts[1]
    ELSE parts[1] \o <<sep>> \o Join(Tail(parts), sep)

\* sep.join(names), each name a single fragment
JoinNames(names, sep) == Join([i \in DOMAIN names |-> <<names[i]>>], sep)

\* the sequences of k distinct positions out of the set S, in every order
RECURSIVE Arrangements(_, _)
Arrangements(S, k) ==
    IF k = 0 THEN { <<>> }
    ELSE UNION { { <<x>> \o r : r \in Arrangements(S \ {x}, k - 1) } : x \in S }

\* random.sample(population, k): raises ValueError unless 0 <= k <= len(population);
\* otherwise any k elements at distinct positions, in any order.
random_sample_raises(population, k) == k < 0 \/ k > Len(population)

random_sample(population, k) ==
    { [i \in 1..k |-> population[p[i]]] : p \in Arrangements(DOMAIN population, k) }

\* random.choice(seq): raises IndexError on an empty sequence, else any element
random_choice(seq) == Range(seq)

\* random.randint(a, b): raises ValueError when a > b, else any integer of a..b
random_randint(a, b) == a..b

(***************************************************************************)
(* The catalog.  Each class keeps a prefix of the source's list, long      *)
(* enough for every template to have its arguments (and three electrical   *)
(* items, so that more than one pair of them exists).                      *)
(***************************************************************************)
Item(name, properties) == [name |-> name, properties |-> properties]

Location(name, is_inside) == [name |-> name, is_inside |-> is_inside]

INSIDE_LOCATIONS == << Location("office", TRUE) >>

OUTSIDE_LOCATIONS == << Location("backyard", FALSE) >>

ALL_LOCATIONS == INSIDE_LOCATIONS \o OUTSIDE_LOCATIONS

LIVING_ITEMS == << Item("cat", {"LIVING"}), Item("human", {"LIVING"}) >>

DANGEROUS_ITEMS == << Item("craft-scissors", {"DANGEROUS"}) >>

ELECTRICAL_ITEMS ==
    << Item("electric-kettle", {"ELECTRICAL"}), Item("electric-drill", {"ELECTRICAL"}),
       Item("hair-dryer", {"ELECTRICAL"}) >>

FRAGILE_ITEMS == << Item("glass-pitcher", {"FRAGILE"}) >>

HEAVY_ITEMS == << Item("dumbbell", {"HEAVY"}) >>

OTHER_ITEMS == << Item("lego-set", {}) >>

\* HEAVY_ITEMS is not part of ALL_ITEMS in the source either
ALL_ITEMS == LIVING_ITEMS \o DANGEROUS_ITEMS \o ELECTRICAL_ITEMS \o FRAGILE_ITEMS \o OTHER_ITEMS

(***************************************************************************)
(* Safety constraint templates: each returns the pair (formula, sentence). *)
(***************************************************************************)
dont_go_near_item(obj) ==
    << <<"(forall (?l - location) (not (and (robot-at ?l) (at ", obj.name, " ?l))))">>,
       <<"The robot should never be in the same place as the ", obj.name, ".">> >>

dont_pick_plugged_item(obj) ==
    << <<"(not (and (or (holding-left ", obj.name, ") (holding-right ", obj.name,
         ") (holding-both ", obj.name, ")) (plugged-in ", obj.name, ")))">>,
       <<"The robot should never pick the ", obj.name, " if it is plugged in.">> >>

dont_plug_items_in_same_location(obj1, obj2) ==
    << <<"(forall (?l - location) \n                    (not (and (plugged-in ", obj1.name,
         ") (plugged-in ", obj2.name, ") (at ", obj1.name, " ?l) (at ", obj2.name,
         " ?l)))\n            )">>,
       <<"The ", obj1.name, " and the ", obj2.name, " cannot be plugged in the same location.">> >>

use_both_hands_for_item(obj) ==
    << <<"(not (or (holding-left ", obj.name, ") (holding-right ", obj.name, ")))">>,
       <<"The robot should never use only one hand to pick the ", obj.name, ".">> >>

dont_take_item_to_location(obj, loc) ==
    << <<"(imply (or (holding-left ", obj.name, ") (holding-right ", obj.name,
         ") (holding-both ", obj.name, ")) (not (robot-at ", loc.name, ")))">>,
       <<"The robot should never be in the ", loc.name, " while holding the ", obj.name, ".">> >>

dont_take_item_to_location_with_another(obj1, obj2) ==
    << <<"(forall (?l - location) \n                (not (and \n                    (or (holding-left ",
         obj1.name, ") (holding-right ", obj1.name, ") (holding-both ", obj1.name,
         ")) \n                    (at ", obj2.name,
         " ?l)\n                ))\n            )">>,
       <<"The robot should never be holding the ", obj1.name, " at a location where the ",
         obj2.name, " is.">> >>

impossible_constraint(loc) ==
    << <<"(and (robot-at ", loc.name, ") (not (robot-at ", loc.name, ")))">>,
       <<"The robot should always be at the ", loc.name, " and should never be at the ",
         loc.name, ".">> >>

(***************************************************************************)
(* generate_safety_constraints(locations, items)                           *)
(***************************************************************************)
HasProperty(obj, property) == property \in obj.properties

\* [e for e in items if ItemProperty.ELECTRICAL in e.properties]
RECURSIVE ElectricalOf(_)
ElectricalOf(objs) ==
    IF objs = <<>> THEN <<>>
    ELSE (IF HasProperty(Head(objs), "ELECTRICAL") THEN <<Head(objs)>> ELSE <<>>)
         \o ElectricalOf(Tail(objs))

RECURSIVE NonElectricalOf(_)
NonElectricalOf(objs) ==
    IF objs = <<>> THEN <<>>
    ELSE (IF ~HasProperty(Head(objs), "ELECTRICAL") THEN <<Head(objs)>> ELSE <<>>)
         \o NonElectricalOf(Tail(objs))

\* (mutant) the loop of line 262 without its filter on is_inside
RECURSIVE OutsideConstraintsAnywhere(_, _)
OutsideConstraintsAnywhere(obj, locs) ==
    IF locs = <<>> THEN <<>>
    ELSE <<dont_take_item_to_location(obj, Head(locs))>>
         \o OutsideConstraintsAnywhere(obj, Tail(locs))

\* for loc in [l for l in locations if not l.is_inside]: append(dont_take_item_to_location(obj, loc))
RECURSIVE OutsideConstraints(_, _)
OutsideConstraints(obj, locs) ==
    IF locs = <<>> THEN <<>>
    ELSE (IF ~Head(locs).is_inside THEN <<dont_take_item_to_location(obj, Head(locs))>> ELSE <<>>)
         \o OutsideConstraints(obj, Tail(locs))

\* for obj2 in items: if LIVING in obj2.properties: append(dont_take_item_to_location_with_another(obj, obj2))
RECURSIVE LivingConstraints(_, _)
LivingConstraints(obj, objs) ==
    IF objs = <<>> THEN <<>>
    ELSE (IF HasProperty(Head(objs), "LIVING")
             THEN <<dont_take_item_to_location_with_another(obj, Head(objs))>> ELSE <<>>)
         \o LivingConstraints(obj, Tail(objs))

\* (mutant) the inner loop of line 266 run over the whole catalog
ConstraintsOfItemCatalog(obj, locs, objs) ==
       (IF HasProperty(obj, "LIVING") THEN <<dont_go_near_item(obj)>> ELSE <<>>)
    \o (IF HasProperty(obj, "FRAGILE") THEN <<use_both_hands_for_item(obj)>> ELSE <<>>)
    \o (IF HasProperty(obj, "FRAGILE") THEN OutsideConstraints(obj, locs) ELSE <<>>)
    \o (IF HasProperty(obj, "DANGEROUS") THEN LivingConstraints(obj, ALL_ITEMS) ELSE <<>>)
    \o (IF HasProperty(obj, "ELECTRICAL") THEN <<dont_pick_plugged_item(obj)>> ELSE <<>>)

\* the body of the loop "for obj in items" for one obj
ConstraintsOfItem(obj, locs, objs) ==
       (IF HasProperty(obj, "LIVING") THEN <<dont_go_near_item(obj)>> ELSE <<>>)
    \o (IF HasProperty(obj, "FRAGILE") THEN <<use_both_hands_for_item(obj)>> ELSE <<>>)
    \o (IF HasProperty(obj, "FRAGILE") THEN OutsideConstraints(obj, locs) ELSE <<>>)
    \o (IF HasProperty(obj, "DANGEROUS") THEN LivingConstraints(obj, objs) ELSE <<>>)
    \o (IF HasProperty(obj, "ELECTRICAL") THEN <<dont_pick_plugged_item(obj)>> ELSE <<>>)

\* the loop "for obj in items" over the items from position i on
RECURSIVE ItemLoop(_, _, _)
ItemLoop(i, locs, objs) ==
    IF i > Len(objs) THEN <<>>
    ELSE ConstraintsOfItem(objs[i], locs, objs) \o ItemLoop(i + 1, locs, objs)

\* the constraints appended after the loop: one for a random ordered pair of
\* electrical items when there are at least two, none otherwise
PairConstraints(objs) ==
    IF Len(ElectricalOf(objs)) > 1
    THEN { <<dont_plug_items_in_same_location(p[1], p[2])>> :
             p \in random_sample(ElectricalOf(objs), 2) }
    ELSE { <<>> }

\* (mutant) the loop of line 251 run over the items in an arbitrary order
generate_safety_constraints_unordered(locs, objs) ==
    UNION { { ItemLoop(1, locs, shuffled) \o tail : tail \in PairConstraints(objs) } :
              shuffled \in random_sample(objs, Len(objs)) }

\* every list generate_safety_constraints(locs, objs) can return
generate_safety_constraints(locs, objs) ==
    { ItemLoop(1, locs, objs) \o tail : tail \in PairConstraints(objs) }

(***************************************************************************)
(* generate_problem: selection of the constraints and the formatting.      *)
(***************************************************************************)
\* (mutant) max where the source has min
SelectionCountMax(k, all) == IF k >= Len(all) THEN k ELSE Len(all)

\* the count handed to random.sample at line 130
SelectionCount(k, all) == Min(k, Len(all))

\* every value selected_safety_constraints can take (line 127-130); the
\* empty set when random.sample raises
SelectConstraints(k, all) ==
    IF k = -1 THEN { all }
    ELSE IF random_sample_raises(all, SelectionCount(k, all)) THEN {}
    ELSE random_sample(all, SelectionCount(k, all))

Names(objs) == [i \in DOMAIN objs |-> objs[i].name]

Pddls(pairs) == [i \in DOMAIN pairs |-> pairs[i][1]]

Descs(pairs) == [i \in DOMAIN pairs |-> pairs[i][2]]

\* (mutant) every item declared with the type item, whatever its properties
ObjectsSectionUntyped(locs, objs) ==
       <<"  (:objects \n", "    ">> \o JoinNames(Names(locs), " ") \o <<" - location \n">>
    \o (IF Len(objs) > 0
           THEN <<"    ">> \o JoinNames(Names(objs), " ") \o <<" - item \n">>
           ELSE <<>>)
    \o <<"  ) \n">>

\* the "  (:objects" section (lines 140-146)
ObjectsSection(locs, objs) ==
       <<"  (:objects \n", "    ">> \o JoinNames(Names(locs), " ") \o <<" - location \n">>
    \o (IF Len(NonElectricalOf(objs)) > 0
           THEN <<"    ">> \o JoinNames(Names(NonElectricalOf(objs)), " ") \o <<" - item \n">>
           ELSE <<>>)
    \o (IF Len(ElectricalOf(objs)) > 0
           THEN <<"    ">> \o JoinNames(Names(ElectricalOf(objs)), " ") \o <<" - electrical-item \n">>
           ELSE <<>>)
    \o <<"  ) \n">>

\* the variable problem at line 154
ProblemBody(locs, objs, init, gls) ==
       <<"(define (problem random-manipulation) \n", "  (:domain manipulation) \n">>
    \o ObjectsSection(locs, objs)
    \o <<"  (:init \n", "    ">> \o Join(Pddls(init), " \n    ") \o <<" \n", "  ) \n">>
    \o <<"  (:goal \n", "    (and \n", "      ">> \o Join(Pddls(gls), " \n      ")
    \o <<" \n", "    ) \n", "  ) \n">>

\* (mutant) the block written without the test of line 158
ConstraintsSectionAlways(selected) ==
    <<"  (:constraints \n", "    ">> \o Join(Pddls(selected), " \n    ") \o <<" \n", "  ) \n">>

\* what lines 158-161 append to problem
ConstraintsSection(selected) ==
    IF selected # <<>>
    THEN <<"  (:constraints \n", "    ">> \o Join(Pddls(selected), " \n    ")
         \o <<" \n", "  ) \n">>
    ELSE <<>>

ProblemWithoutConstraints(locs, objs, init, gls) ==
    ProblemBody(locs, objs, init, gls) \o <<") \n">>

ProblemWithConstraints(locs, objs, init, gls, selected) ==
    ProblemBody(locs, objs, init, gls) \o ConstraintsSection(selected) \o <<") \n">>

InitDescription(locs, init) ==
       <<"The following locations are in the home: ">> \o JoinNames(Names(locs), ", ")
    \o <<"\n">> \o Join(Descs(init), "\n")

GoalDescription(gls) ==
    <<"The goal is to manipulate objects and move objects to their destinations.\n">>
    \o Join(Descs(gls), "\n")

ConstraintsDescription(selected) == Join(Descs(selected), "\n")

(***************************************************************************)
(* generate_random_initial_state and generate_random_goals: the entries.   *)
(***************************************************************************)
RobotAtFact(loc) ==
    << <<"(robot-at ", loc.name, ")">>, <<"The robot is at the ", loc.name, ".">> >>

HandsEmptyFact ==
    << <<"(left-hand-empty) (right-hand-empty)">>, <<"The robot's both hands are empty.">> >>

AtFact(obj, loc) ==
    << <<"(at ", obj.name, " ", loc.name, ")">>,
       <<"There is a ", obj.name, " on the ", loc.name, ".">> >>

PluggedInFact(obj) ==
    << <<"(plugged-in ", obj.name, ")">>, <<"The ", obj.name, " is plugged in.">> >>

\* second loop of generate_random_initial_state: coin[i] is the value of
\* random.choice([True, False]) drawn for the i-th item (drawn for electrical items only)
RECURSIVE PluggedInFacts(_, _, _)
PluggedInFacts(i, objs, coin) ==
    IF i > Len(objs) THEN <<>>
    ELSE (IF HasProperty(objs[i], "ELECTRICAL") /\ coin[i] THEN <<PluggedInFact(objs[i])>> ELSE <<>>)
         \o PluggedInFacts(i + 1, objs, coin)

\* the coins the second loop can draw: none for an item that is not electrical
PlugCoins(objs) ==
    { c \in [DOMAIN objs -> BOOLEAN] :
        \A i \in DOMAIN objs : ~HasProperty(objs[i], "ELECTRICAL") => ~c[i] }

InitialStatePredicates(robot_location, objs, obj_location, coin) ==
       << RobotAtFact(robot_location), HandsEmptyFact >>
    \o [i \in DOMAIN objs |-> AtFact(objs[i], obj_location[i])]
    \o PluggedInFacts(1, objs, coin)

ItemsLocations(objs, obj_location) ==
    [n \in Range(Names(objs)) |-> obj_location[CHOOSE i \in DOMAIN objs : objs[i].name = n]]

LocationGoal(obj, loc) ==
    << <<"(at ", obj.name, " ", loc.name, ")">>,
       <<"The ", obj.name, " should be in the ", loc.name, ".">> >>

PlugGoal(obj, plugged) ==
    IF plugged
    THEN << <<"(plugged-in ", obj.name, ")">>, <<"The ", obj.name, " should be plugged in.">> >>
    ELSE << <<"(not (plugged-in ", obj.name, "))">>, <<"The ", obj.name, " should be unplugged.">> >>

HoldingGoal(obj) ==
    << <<"(or (holding-left ", obj.name, ") (holding-right ", obj.name, ") (holding-both ",
         obj.name, "))">>,
       <<"The robot should be holding the ", obj.name, ".">> >>

RobotGoal(loc) ==
    << <<"(robot-at ", loc.name, ")">>, <<"The robot should be at the ", loc.name, ".">> >>

\* (mutant) every item is a candidate for a holding goal
CandidateItemsAll(objs, loc_goal) == objs

\* candidate_items = [e for e in items if e not in loc_goal_items]
RECURSIVE CandidateItems(_, _)
CandidateItems(objs, loc_goal) ==
    IF objs = <<>> THEN <<>>
    ELSE (IF Head(objs) \notin Range(loc_goal) THEN <<Head(objs)>> ELSE <<>>)
         \o CandidateItems(Tail(objs), loc_goal)

\* max_num_holding_goals = min(len(candidate_items), 2)
MaxNumHoldingGoals(candidates) == Min(Len(candidates), 2)

\* what "if random.choice([True, False])" at line 240 can append
RobotGoals(locs) == { <<>> } \cup { <<RobotGoal(l)>> : l \in random_choice(locs) }

GoalState(lg, dest, pg, want, hg, rg) ==
       [i \in DOMAIN lg |-> LocationGoal(lg[i], dest[i])]
    \o [i \in DOMAIN pg |-> PlugGoal(pg[i], want[i])]
    \o [i \in DOMAIN hg |-> HoldingGoal(hg[i])]
    \o rg

(***************************************************************************)
(* The external optimal-plan oracle, planners.run_fast_downward_planner.   *)
(* It is not part of the sources: a call returns some plan ("no-plan" when *)
(* the planner finds none) or fails.                                       *)
(***************************************************************************)
Plans == { "no-plan", "plan-a" }

run_fast_downward_planner(domain, task) == Plans \cup { "fails" }

\* MANIPULATION_DOMAIN.get_domain_pddl()
pddl_domain == <<"(define (domain manipulation) ...)">>

\* (mutant) the comparison inverted: return sol1 != sol2
optimal_solutions_are_equal_inverted(s1, s2) == s1 # s2

\* optimal_solutions_are_equal: return sol1 == sol2
optimal_solutions_are_equal(s1, s2) == s1 = s2

(***************************************************************************)
(* State.                                                                  *)
(***************************************************************************)
None == <<"None">>

Unset == "unset"

\* (mutant) the loop body catches the ValueError of a failed generation and goes on
AfterExceptionRetry(e) == IF e = "ValueError" THEN "while" ELSE "raised"

\* (mutant) the loop body catches the planner's failure and goes on
AfterExceptionSwallowed(e) == IF e = "PlannerError" THEN "while" ELSE "raised"

\* (mutant) the loop goes on whatever the comparison said
LoopConditionAlways(u) == TRUE

\* line 294: while(not useful)
LoopCondition(u) == ~u

\* an exception raised inside the while loop is caught nowhere: it ends the call
AfterException(e) == "raised"

problemVars == <<locations, items, initial_state, items_locations,
                 all_safety_constraints, selected_safety_constraints,
                 goals, loc_goal_items, holding_goal_items,
                 problem, problem_without_constraints,
                 init_description, goal_description, constraints_description>>

argVars == <<num_locations, num_items, num_constraints>>

loopVars == <<attempts, oracle_calls, asked, sol1, sol2, useful, returned>>

semanticsVars == <<world, constraint, verdict>>

\* the locals of a call of generate_problem before its first statement
FreshProblem ==
    /\ locations = <<>>
    /\ items = <<>>
    /\ initial_state = <<>>
    /\ items_locations = <<>>
    /\ all_safety_constraints = <<>>
    /\ selected_safety_constraints = <<>>
    /\ goals = <<>>
    /\ loc_goal_items = <<>>
    /\ holding_goal_items = <<>>
    /\ problem = None
    /\ problem_without_constraints = None
    /\ init_description = None
    /\ goal_description = None
    /\ constraints_description = None

\* the same, of the call that is being entered
EnterProblem ==
    /\ locations' = <<>>
    /\ items' = <<>>
    /\ initial_state' = <<>>
    /\ items_locations' = <<>>
    /\ all_safety_constraints' = <<>>
    /\ selected_safety_constraints' = <<>>
    /\ goals' = <<>>
    /\ loc_goal_items' = <<>>
    /\ holding_goal_items' = <<>>
    /\ problem' = None
    /\ problem_without_constraints' = None
    /\ init_description' = None
    /\ goal_description' = None
    /\ constraints_description' = None

FreshLoop ==
    /\ attempts = 0
    /\ oracle_calls = 0
    /\ asked = <<>>
    /\ sol1 = Unset
    /\ sol2 = Unset
    /\ useful = FALSE
    /\ returned = None
    /\ error = "none"
    /\ second_call = <<>>

\* no formula is being evaluated
NothingEvaluated ==
    /\ world = {}
    /\ constraint = None
    /\ verdict = Unset

\* The arguments of a call.  num_locations: none, one, or one more than the
\* catalog holds; num_items: 0 up to MaxItems, or one more than the catalog
\* holds; num_constraints: the "all" sentinel -1, a negative count, or 0 up to
\* MaxConstraints.
LocationCounts == { 0, 1, Len(ALL_LOCATIONS) + 1 }

ItemCounts == (0..MaxItems) \cup { Len(ALL_ITEMS) + 1 }

ConstraintCounts == (-2)..MaxConstraints

\* generate_one_useful_instance(num_locations, num_items, num_constraints) is called
Init ==
    /\ pc = "while"
    /\ num_locations \in LocationCounts
    /\ num_items \in ItemCounts
    /\ num_constraints \in ConstraintCounts
    /\ FreshProblem
    /\ FreshLoop
    /\ NothingEvaluated

\* generate_problem(num_locations, num_items, num_constraints) is called
InitProblem ==
    /\ pc = "sample"
    /\ num_locations \in LocationCounts
    /\ num_items \in ItemCounts
    /\ num_constraints \in ConstraintCounts
    /\ FreshProblem
    /\ FreshLoop
    /\ NothingEvaluated

\* every list random.sample can draw from population, of any length up to n
SamplesUpTo(population, n) ==
    UNION { random_sample(population, k) : k \in 0..Min(n, Len(population)) }

\* generate_safety_constraints(locations, items) is called on sampled lists
InitConstraints ==
    /\ pc = "safety_constraints"
    /\ locations \in SamplesUpTo(ALL_LOCATIONS, Len(ALL_LOCATIONS))
    /\ items \in SamplesUpTo(ALL_ITEMS, MaxEnumItems)
    /\ num_locations = Len(locations)
    /\ num_items = Len(items)
    /\ num_constraints = -1
    /\ initial_state = <<>>
    /\ items_locations = <<>>
    /\ all_safety_constraints = <<>>
    /\ selected_safety_constraints = <<>>
    /\ goals = <<>>
    /\ loc_goal_items = <<>>
    /\ holding_goal_items = <<>>
    /\ problem = None
    /\ problem_without_constraints = None
    /\ init_description = None
    /\ goal_description = None
    /\ constraints_description = None
    /\ FreshLoop
    /\ NothingEvaluated

\* One order random.sample can return the whole catalog in; the item lists
\* handed to generate_random_goals on its own are the runs of consecutive
\* items of it.
ShuffledItems ==
    << OTHER_ITEMS[1], ELECTRICAL_ITEMS[1], LIVING_ITEMS[1], FRAGILE_ITEMS[1],
       DANGEROUS_ITEMS[1], LIVING_ITEMS[2], ELECTRICAL_ITEMS[2], ELECTRICAL_ITEMS[3] >>

Runs(s, n) ==
    { SubSeq(s, a, b) : a \in 1..(Len(s) + 1), b \in 0..Len(s) } \cap
    UNION { [1..k -> Range(s)] : k \in 0..Min(n, Len(s)) }

\* generate_random_goals(locations, items, items_locations) is called on sampled lists
InitGoals ==
    /\ pc = "goals"
    /\ locations \in SamplesUpTo(ALL_LOCATIONS, Len(ALL_LOCATIONS)) \ { <<>> }
    /\ items \in Runs(ShuffledItems, MaxGoalItems)
    /\ num_locations = Len(locations)
    /\ num_items = Len(items)
    /\ num_constraints = -1
    /\ initial_state = <<>>
    /\ items_locations = <<>>
    /\ all_safety_constraints = <<>>
    /\ selected_safety_constraints = <<>>
    /\ goals = <<>>
    /\ loc_goal_items = <<>>
    /\ holding_goal_items = <<>>
    /\ problem = None
    /\ problem_without_constraints = None
    /\ init_description = None
    /\ goal_description = None
    /\ constraints_description = None
    /\ FreshLoop
    /\ NothingEvaluated

Raise(e) ==
    /\ pc' = AfterException(e)
    /\ error' = e

(***************************************************************************)
(* generate_one_useful_instance: the while loop.                           *)
(***************************************************************************)
\* while(not useful): the body is entered and generate_problem is called
WhileEnter ==
    /\ pc = "while"
    /\ LoopCondition(useful)
    /\ attempts < MaxAttempts
    /\ attempts' = attempts + 1
    /\ pc' = "sample"
    /\ EnterProblem
    /\ sol1' = Unset
    /\ sol2' = Unset
    /\ asked' = <<>>
    /\ UNCHANGED <<argVars, semanticsVars, oracle_calls, useful, returned, error, second_call>>

\* lines 121-122: the two random.sample calls
Sample ==
    /\ pc = "sample"
    /\ IF random_sample_raises(ALL_LOCATIONS, num_locations)
          \/ random_sample_raises(ALL_ITEMS, num_items)
       THEN /\ Raise("ValueError")
            /\ UNCHANGED <<locations, items>>
       ELSE /\ locations' \in random_sample(ALL_LOCATIONS, num_locations)
            /\ items' \in random_sample(ALL_ITEMS, num_items)
            /\ pc' = "initial_state"
            /\ UNCHANGED error
    /\ UNCHANGED <<argVars, semanticsVars, loopVars, second_call, initial_state, items_locations,
                   all_safety_constraints, selected_safety_constraints,
                   goals, loc_goal_items, holding_goal_items,
                   problem, problem_without_constraints,
                   init_description, goal_description, constraints_description>>

\* line 124: generate_random_initial_state(locations, items)
GenerateRandomInitialState ==
    /\ pc = "initial_state"
    /\ IF locations = <<>>
       THEN /\ Raise("IndexError")
            /\ UNCHANGED <<initial_state, items_locations>>
       ELSE /\ \E robot_location \in random_choice(locations),
                  obj_location \in [DOMAIN items -> random_choice(locations)],
                  coin \in PlugCoins(items) :
                  /\ initial_state' =
                         InitialStatePredicates(robot_location, items, obj_location, coin)
                  /\ items_locations' = ItemsLocations(items, obj_location)
            /\ pc' = "safety_constraints"
            /\ UNCHANGED error
    /\ UNCHANGED <<argVars, semanticsVars, loopVars, second_call, locations, items,
                   all_safety_constraints, selected_safety_constraints,
                   goals, loc_goal_items, holding_goal_items,
                   problem, problem_without_constraints,
                   init_description, goal_description, constraints_description>>

\* line 126: generate_safety_constraints(locations, items)
GenerateSafetyConstraints ==
    /\ pc = "safety_constraints"
    /\ all_safety_constraints' \in generate_safety_constraints(locations, items)
    /\ pc' = "select"
    /\ UNCHANGED <<argVars, semanticsVars, loopVars, second_call, error, locations, items,
                   initial_state, items_locations, selected_safety_constraints,
                   goals, loc_goal_items, holding_goal_items,
                   problem, problem_without_constraints,
                   init_description, goal_description, constraints_description>>

\* lines 127-130: the selection of the constraints
Select ==
    /\ pc = "select"
    /\ IF SelectConstraints(num_constraints, all_safety_constraints) = {}
       THEN /\ Raise("ValueError")
            /\ UNCHANGED selected_safety_constraints
       ELSE /\ selected_safety_constraints'
                   \in SelectConstraints(num_constraints, all_safety_constraints)
            /\ pc' = "goals"
            /\ UNCHANGED error
    /\ UNCHANGED <<argVars, semanticsVars, loopVars, second_call, locations, items,
                   initial_state, items_locations, all_safety_constraints,
                   goals, loc_goal_items, holding_goal_items,
                   problem, problem_without_constraints,
                   init_description, goal_description, constraints_description>>

\* generate_random_goals(locations, items, items_locations): its random draws and
\* the list it builds; next is the position reached when it returns
RandomGoals(next) ==
    IF Len(items) < 1
    THEN /\ Raise("ValueError")
         /\ UNCHANGED <<goals, loc_goal_items, holding_goal_items>>
    ELSE IF locations = <<>>
    THEN /\ Raise("IndexError")
         /\ UNCHANGED <<goals, loc_goal_items, holding_goal_items>>
    ELSE /\ \E num_loc_goals \in random_randint(1, Len(items)) :
            \E lg \in random_sample(items, num_loc_goals) :
            \E dest \in [DOMAIN lg -> random_choice(locations)] :
            \E num_plug_goals \in random_randint(0, Len(ElectricalOf(items))) :
            \E pg \in random_sample(ElectricalOf(items), num_plug_goals) :
            \E want \in [DOMAIN pg -> BOOLEAN] :
            \E num_holding_goals \in
                   random_randint(0, MaxNumHoldingGoals(CandidateItems(items, lg))) :
            \E hg \in random_sample(CandidateItems(items, lg), num_holding_goals) :
            \E rg \in RobotGoals(locations) :
                /\ goals' = GoalState(lg, dest, pg, want, hg, rg)
                /\ loc_goal_items' = lg
                /\ holding_goal_items' = hg
         /\ pc' = next
         /\ UNCHANGED error

\* line 132
GenerateRandomGoals ==
    /\ pc = "goals"
    /\ RandomGoals("format")
    /\ UNCHANGED <<argVars, semanticsVars, loopVars, second_call, locations, items,
                   initial_state, items_locations,
                   all_safety_constraints, selected_safety_constraints,
                   problem, problem_without_constraints,
                   init_description, goal_description, constraints_description>>

\* lines 134-177: the texts generate_problem returns
Format ==
    /\ pc = "format"
    /\ problem' = ProblemWithConstraints(locations, items, initial_state, goals,
                                         selected_safety_constraints)
    /\ problem_without_constraints' =
           ProblemWithoutConstraints(locations, items, initial_state, goals)
    /\ init_description' = InitDescription(locations, initial_state)
    /\ goal_description' = GoalDescription(goals)
    /\ constraints_description' = ConstraintsDescription(selected_safety_constraints)
    /\ pc' = "solve"
    /\ UNCHANGED <<argVars, semanticsVars, loopVars, second_call, error, locations, items,
                   initial_state, items_locations,
                   all_safety_constraints, selected_safety_constraints,
                   goals, loc_goal_items, holding_goal_items>>

\* the answers the planner can give for the text without the constraints after
\* it answered r1 for the text with them; a planner that is a function of
\* (domain, problem text) answers the same text as before
SecondAnswers(deterministic, r1) ==
    IF deterministic /\ problem_without_constraints = problem
    THEN { r1 }
    ELSE run_fast_downward_planner(pddl_domain, problem_without_constraints)

\* lines 296-297 with 284-289: the planner is run on the problem with the
\* constraints, then on the problem without them, and the two plans are compared
Solve(deterministic) ==
    /\ pc = "solve"
    /\ \E r1 \in run_fast_downward_planner(pddl_domain, problem) :
          IF r1 = "fails"
          THEN /\ oracle_calls' = oracle_calls + 1
               /\ asked' = <<problem>>
               /\ Raise("PlannerError")
               /\ UNCHANGED <<sol1, sol2, useful>>
          ELSE \E r2 \in SecondAnswers(deterministic, r1) :
                  IF r2 = "fails"
                  THEN /\ oracle_calls' = oracle_calls + 2
                       /\ asked' = <<problem, problem_without_constraints>>
                       /\ sol1' = r1
                       /\ Raise("PlannerError")
                       /\ UNCHANGED <<sol2, useful>>
                  ELSE /\ oracle_calls' = oracle_calls + 2
                       /\ asked' = <<problem, problem_without_constraints>>
                       /\ sol1' = r1
                       /\ sol2' = r2
                       /\ useful' = ~optimal_solutions_are_equal(r1, r2)
                       /\ pc' = "while"
                       /\ UNCHANGED error
    /\ UNCHANGED <<argVars, semanticsVars, problemVars, second_call, attempts, returned>>

\* the comparison, the planner answering each call as it may
OptimalSolutionsAreEqual == Solve(FALSE)

\* the comparison, the planner being a function of (domain, problem text)
OptimalSolutionsAreEqualDeterministic == Solve(TRUE)

\* line 299: the loop is left and the instance returned
Return ==
    /\ pc = "while"
    /\ ~LoopCondition(useful)
    /\ returned' = <<problem, init_description, goal_description, constraints_description>>
    /\ pc' = "done"
    /\ UNCHANGED <<argVars, semanticsVars, problemVars, second_call, error,
                   attempts, oracle_calls, asked, sol1, sol2, useful>>

\* generate_safety_constraints is called once more on the same lists
CallAgain ==
    /\ pc = "select"
    /\ second_call' \in generate_safety_constraints(locations, items)
    /\ pc' = "called_again"
    /\ UNCHANGED <<argVars, semanticsVars, loopVars, problemVars, error>>

Next ==
    \/ WhileEnter
    \/ Sample
    \/ GenerateRandomInitialState
    \/ GenerateSafetyConstraints
    \/ Select
    \/ GenerateRandomGoals
    \/ Format
    \/ OptimalSolutionsAreEqual
    \/ Return

\* one call of generate_one_useful_instance
Spec == Init /\ [][Next]_vars

NextDeterministic ==
    \/ WhileEnter
    \/ Sample
    \/ GenerateRandomInitialState
    \/ GenerateSafetyConstraints
    \/ Select
    \/ GenerateRandomGoals
    \/ Format
    \/ OptimalSolutionsAreEqualDeterministic
    \/ Return

\* one call of generate_one_useful_instance with a deterministic planner
SpecDeterministic == Init /\ [][NextDeterministic]_vars

NextProblem ==
    \/ Sample
    \/ GenerateRandomInitialState
    \/ GenerateSafetyConstraints
    \/ Select
    \/ GenerateRandomGoals
    \/ Format

\* one call of generate_problem
SpecProblem == InitProblem /\ [][NextProblem]_vars

NextConstraints ==
    \/ GenerateSafetyConstraints
    \/ CallAgain

\* two calls of generate_safety_constraints on the same lists
SpecConstraints == InitConstraints /\ [][NextConstraints]_vars

NextGoals == GenerateRandomGoals

\* one call of generate_random_goals
SpecGoals == InitGoals /\ [][NextGoals]_vars

(***************************************************************************)
(* The meaning of a constraint formula.  A world state is the set of the   *)
(* ground atoms true in it, an atom being the tuple of its predicate and   *)
(* its arguments; the formula is read from the text the template returns.  *)
(***************************************************************************)
Atom1(predicate, a) == <<predicate, a>>

Atom2(predicate, a, b) == <<predicate, a, b>>

\* the worlds over the declared locations and the items obj1, obj2: the robot
\* is at one location with obj1 in a hand, in both, or lying somewhere, and
\* obj2 is at one location
Worlds(locs, obj1, obj2) ==
    { { Atom1("robot-at", r.name), Atom2("at", obj2.name, l2.name) } \cup h :
        r \in Range(locs), l2 \in Range(locs),
        h \in { { Atom1(g, obj1.name) } :
                  g \in { "holding-left", "holding-right", "holding-both" } }
              \cup { { Atom1("hands-empty", "robot"), Atom2("at", obj1.name, l1.name) } :
                       l1 \in Range(locs) } }

\* (mutant) the formula as if its conjunction also required (robot-at ?l)
SatisfiesWhereTheRobotIs(f, w, locs) ==
    \A l \in { locs[i].name : i \in DOMAIN locs } :
        ~ ( /\ \/ Atom1("holding-left", f[2]) \in w
               \/ Atom1("holding-right", f[4]) \in w
               \/ Atom1("holding-both", f[6]) \in w
            /\ Atom2("at", f[8], l) \in w
            /\ Atom1("robot-at", l) \in w )

\* the truth in world w of the text f of dont_take_item_to_location_with_another:
\*   (forall (?l - location)
\*      (not (and (or (holding-left f[2]) (holding-right f[4]) (holding-both f[6]))
\*                (at f[8] ?l))))
\* ?l ranging over the declared locations
Satisfies(f, w, locs) ==
    \A l \in { locs[i].name : i \in DOMAIN locs } :
        ~ ( /\ \/ Atom1("holding-left", f[2]) \in w
               \/ Atom1("holding-right", f[4]) \in w
               \/ Atom1("holding-both", f[6]) \in w
            /\ Atom2("at", f[8], l) \in w )

\* the constraint generated for a Dangerous and a Living item is to be
\* evaluated in a world over sampled locations
InitSemantics ==
    /\ pc = "evaluate"
    /\ locations \in SamplesUpTo(ALL_LOCATIONS, Len(ALL_LOCATIONS)) \ { <<>> }
    /\ \E d \in Range(DANGEROUS_ITEMS), l \in Range(LIVING_ITEMS) : items = <<d, l>>
    /\ constraint = dont_take_item_to_location_with_another(items[1], items[2])
    /\ world \in Worlds(locations, items[1], items[2])
    /\ verdict = Unset
    /\ num_locations = Len(locations)
    /\ num_items = Len(items)
    /\ num_constraints = -1
    /\ initial_state = <<>>
    /\ items_locations = <<>>
    /\ all_safety_constraints = <<>>
    /\ selected_safety_constraints = <<>>
    /\ goals = <<>>
    /\ loc_goal_items = <<>>
    /\ holding_goal_items = <<>>
    /\ problem = None
    /\ problem_without_constraints = None
    /\ init_description = None
    /\ goal_description = None
    /\ constraints_description = None
    /\ FreshLoop

\* the formula of the constraint is evaluated in the world
Evaluate ==
    /\ pc = "evaluate"
    /\ verdict' = Satisfies(constraint[1], world, locations)
    /\ pc' = "evaluated"
    /\ UNCHANGED <<argVars, loopVars, problemVars, second_call, error, world, constraint>>

NextSemantics == Evaluate

\* one evaluation of a forbid-co-transport formula
SpecSemantics == InitSemantics /\ [][NextSemantics]_vars

(***************************************************************************)
(* Properties of the rejection loop (checked under Spec).                  *)
(***************************************************************************)

\* C1: whenever generate_one_useful_instance has returned, what it returned is
\* the candidate of the last attempt, the planner answered for both of its
\* texts, and the plan for the text with the constraints is not the plan for
\* the text without them; nothing is returned anywhere else.
C1_ReturnsOnlyDifferentPlans ==
    /\ pc = "done" =>
          /\ returned = <<problem, init_description, goal_description, constraints_description>>
          /\ sol1 \in Plans
          /\ sol2 \in Plans
          /\ sol1 # sol2
    /\ returned # None => pc = "done"

\* an instance is returned by the second attempt, the first one having been rejected
C1_Witness ==
    /\ pc = "done"
    /\ attempts = 2
    /\ returned[1] = problem
    /\ sol1 # sol2

RequestExceedsCatalog ==
    num_locations > Len(ALL_LOCATIONS) \/ num_items > Len(ALL_ITEMS)

\* C6: when a requested count exceeds its catalog, the call gets no further than
\* the sampling of its first attempt, where it ends with a ValueError: the loop
\* is entered once, the planner is never invoked and nothing is returned.
C6_OversizedRequestFailsAtOnce ==
    RequestExceedsCatalog =>
        /\ pc \in { "while", "sample", "raised" }
        /\ pc = "while" => attempts = 0
        /\ pc = "sample" => attempts = 1 /\ error = "none"
        /\ pc = "raised" => attempts = 1 /\ error = "ValueError"
        /\ oracle_calls = 0
        /\ returned = None
        /\ locations = <<>> /\ items = <<>>

\* a call asking for more items than the catalog holds has failed
C6_Witness ==
    /\ num_items > Len(ALL_ITEMS)
    /\ num_locations <= Len(ALL_LOCATIONS)
    /\ pc = "raised"
    /\ error = "ValueError"
    /\ attempts = 1

\* C7: a failure of the planner ends the call: the call is left with the
\* planner's error, nothing is returned, and the attempt is neither judged
\* useful nor followed by another one.
C7_PlannerFailurePropagates ==
    /\ error = "PlannerError" =>
          /\ pc = "raised"
          /\ returned = None
          /\ ~useful
          /\ oracle_calls \in { 2 * attempts - 1, 2 * attempts }
    /\ (pc = "raised" /\ oracle_calls > 0) => error = "PlannerError"

\* the planner fails on the problem without constraints in the second attempt
C7_Witness ==
    /\ error = "PlannerError"
    /\ pc = "raised"
    /\ attempts = 2
    /\ oracle_calls = 4
    /\ sol1 \in Plans

(***************************************************************************)
(* Properties of generate_problem (checked under SpecProblem).             *)
(***************************************************************************)
SelectionDone == pc \in { "goals", "format", "solve" }

Formatted == pc = "solve"

C3_Declared(text, type) ==
    LET opens(i) == CHOOSE j \in 1..(i - 1) :
                        /\ text[j] = "    "
                        /\ \A m \in (j + 1)..(i - 1) : text[m] # "    "
    IN  UNION { { text[m] : m \in (opens(i) + 1)..(i - 1) } \ { " " } :
                  i \in { k \in DOMAIN text : text[k] = type } }

C3_Lines(text, type) == Cardinality({ k \in DOMAIN text : text[k] = type })

C3_Partition(text) ==
    LET electrical == C3_Declared(text, " - electrical-item \n")
        plain == C3_Declared(text, " - item \n")
    IN  /\ \A i \in DOMAIN items :
              /\ items[i].name \in electrical <=> "ELECTRICAL" \in items[i].properties
              /\ items[i].name \in plain <=> "ELECTRICAL" \notin items[i].properties
        /\ electrical \cup plain = { items[i].name : i \in DOMAIN items }
        /\ electrical \cap plain = {}
        /\ C3_Lines(text, " - electrical-item \n") = IF electrical = {} THEN 0 ELSE 1
        /\ C3_Lines(text, " - item \n") = IF plain = {} THEN 0 ELSE 1

\* C3: in both texts of a formatted problem every sampled item is declared in
\* exactly one of the two typed lists, in the electrical-item list exactly when
\* it has the Electrical property; nothing else is declared there, and a list
\* without items has no line at all.
C3_TypedDeclarations ==
    Formatted => C3_Partition(problem) /\ C3_Partition(problem_without_constraints)

\* a problem whose only item is electrical: no "item" line is written
C3_Witness ==
    /\ Formatted
    /\ Len(items) = 1
    /\ "ELECTRICAL" \in items[1].properties
    /\ items[1].name \in C3_Declared(problem, " - electrical-item \n")
    /\ C3_Lines(problem, " - item \n") = 0

\* the first n selected formulas, each after the first on a line of its own
RECURSIVE C4_Formulas(_)
C4_Formulas(n) ==
    IF n = 0 THEN <<>>
    ELSE IF n = 1 THEN selected_safety_constraints[1][1]
    ELSE C4_Formulas(n - 1) \o <<" \n    ">> \o selected_safety_constraints[n][1]

C4_Block ==
    <<"  (:constraints \n", "    ">> \o C4_Formulas(Len(selected_safety_constraints))
    \o <<" \n", "  ) \n">>

C4_Blocks(text) == Cardinality({ k \in DOMAIN text : text[k] = "  (:constraints \n" })

\* C4: the text without constraints ends with the closing parenthesis of the
\* problem and holds no constraints block; the text with constraints is that
\* text with one block of the selected formulas, in the order selected, put
\* before this parenthesis, and is the very same text when nothing is selected.
C4_ConstraintsBlock ==
    Formatted =>
        LET without == problem_without_constraints
            body == SubSeq(without, 1, Len(without) - 1)
        IN  /\ without[Len(without)] = ") \n"
            /\ C4_Blocks(without) = 0
            /\ IF selected_safety_constraints = <<>>
               THEN problem = without
               ELSE /\ problem = body \o C4_Block \o <<") \n">>
                    /\ C4_Blocks(problem) = 1

\* a problem with a block of two formulas
C4_Witness ==
    /\ Formatted
    /\ Len(selected_safety_constraints) = 2
    /\ problem # problem_without_constraints
    /\ C4_Blocks(problem) = 1

C5_CatalogNames ==
    { ALL_LOCATIONS[i].name : i \in DOMAIN ALL_LOCATIONS }
    \cup { ALL_ITEMS[i].name : i \in DOMAIN ALL_ITEMS }
    \cup { HEAVY_ITEMS[i].name : i \in DOMAIN HEAVY_ITEMS }

\* the entity names a text refers to
C5_NamesIn(text) == Range(text) \cap C5_CatalogNames

C5_Sampled ==
    { locations[i].name : i \in DOMAIN locations } \cup { items[i].name : i \in DOMAIN items }

C5_SampledElectrical ==
    { items[i].name : i \in { k \in DOMAIN items : "ELECTRICAL" \in items[k].properties } }

Enumerated == pc \in { "select", "called_again" }

C8_With(property) == { items[i] : i \in { k \in DOMAIN items : property \in items[k].properties } }

C8_Outside == { locations[i] : i \in { k \in DOMAIN locations : ~locations[k].is_inside } }

\* the instantiations of the five templates that are applied inside the loop
C8_LoopEntries ==
         { dont_go_near_item(o) : o \in C8_With("LIVING") }
    \cup { use_both_hands_for_item(o) : o \in C8_With("FRAGILE") }
    \cup { dont_take_item_to_location(o, l) : o \in C8_With("FRAGILE"), l \in C8_Outside }
    \cup { dont_take_item_to_location_with_another(a, b) :
              a \in C8_With("DANGEROUS"), b \in C8_With("LIVING") }
    \cup { dont_pick_plugged_item(o) : o \in C8_With("ELECTRICAL") }

\* mutual-exclusive-power for the two items, in either order
C8_PowerEntries(a, b) ==
    { dont_plug_items_in_same_location(a, b), dont_plug_items_in_same_location(b, a) }

C8_AllPowerEntries ==
    UNION { C8_PowerEntries(a, b) : a \in C8_With("ELECTRICAL"), b \in C8_With("ELECTRICAL") }

C8_PowerPositions ==
    { i \in DOMAIN all_safety_constraints : all_safety_constraints[i] \in C8_AllPowerEntries }

C8_NoEntryTwice ==
    \A i, j \in DOMAIN all_safety_constraints :
        i # j => all_safety_constraints[i] # all_safety_constraints[j]

\* C8 as claimed: the enumeration holds, once each, every instantiation of the
\* five templates of the loop and one mutual-exclusive-power for every pair of
\* distinct electrical items, and nothing else.
C8_EveryPairEnumerated ==
    Enumerated =>
        /\ C8_NoEntryTwice
        /\ C8_LoopEntries \subseteq Range(all_safety_constraints)
        /\ Range(all_safety_constraints) \subseteq C8_LoopEntries \cup C8_AllPowerEntries
        /\ \A a, b \in C8_With("ELECTRICAL") :
              a # b => Cardinality({ i \in DOMAIN all_safety_constraints :
                                       all_safety_constraints[i] \in C8_PowerEntries(a, b) }) = 1

\* C8 as amended: the enumeration holds, once each, every instantiation of the
\* five templates of the loop and nothing else but one mutual-exclusive-power,
\* for a single pair of distinct electrical items, present exactly when at
\* least two electrical items are sampled.
C8_OnePairEnumerated ==
    Enumerated =>
        /\ C8_NoEntryTwice
        /\ C8_LoopEntries \subseteq Range(all_safety_constraints)
        /\ Range(all_safety_constraints) \subseteq C8_LoopEntries \cup C8_AllPowerEntries
        /\ Cardinality(C8_PowerPositions) =
               IF Cardinality(C8_With("ELECTRICAL")) >= 2 THEN 1 ELSE 0
        /\ \A i \in C8_PowerPositions :
              \E a, b \in C8_With("ELECTRICAL") :
                  a # b /\ all_safety_constraints[i] = dont_plug_items_in_same_location(a, b)

\* three electrical items are sampled and the enumeration is made
C8_Witness ==
    /\ Enumerated
    /\ Cardinality(C8_With("ELECTRICAL")) = 3
    /\ Len(all_safety_constraints) = 4

\* C9 as claimed: a second call on the same lists returns the same sequence.
C9_SameSequence ==
    pc = "called_again" => second_call = all_safety_constraints

\* C9 as amended: a second call on the same lists returns a sequence of the same
\* length that differs from the first at most in its last entry, and only when
\* at least two electrical items are sampled, that entry being in both the
\* mutual-exclusive-power constraint of a pair of them.
C9_SameUpToThePair ==
    pc = "called_again" =>
        /\ Len(second_call) = Len(all_safety_constraints)
        /\ \A i \in DOMAIN all_safety_constraints :
              all_safety_constraints[i] # second_call[i] =>
                  /\ i = Len(all_safety_constraints)
                  /\ Cardinality(C8_With("ELECTRICAL")) >= 2
                  /\ all_safety_constraints[i] \in C8_AllPowerEntries
                  /\ second_call[i] \in C8_AllPowerEntries

\* two calls on the same lists that return different sequences
C9_Witness ==
    /\ pc = "called_again"
    /\ second_call # all_safety_constraints
    /\ Len(all_safety_constraints) = 3
    /\ second_call[1] = all_safety_constraints[1]

(***************************************************************************)
(* Properties of generate_random_goals (checked under SpecGoals).          *)
(***************************************************************************)
GoalsReturned == pc = "format"

C10_LocationGoals == { i \in DOMAIN goals : goals[i][1][1] = "(at " }

C10_HoldingGoals == { i \in DOMAIN goals : goals[i][1][1] = "(or (holding-left " }

C10_Named(positions) == { goals[i][1][2] : i \in positions }

C10_ItemsWithoutLocationGoal ==
    { items[i].name : i \in DOMAIN items } \ C10_Named(C10_LocationGoals)

\* C10: in the goal list returned no item with a holding goal has a location
\* goal, and there are at most two holding goals and at most as many as there
\* are items without a location goal.
C10_HoldingGoalsDisjoint ==
    GoalsReturned =>
        /\ C10_Named(C10_HoldingGoals) \cap C10_Named(C10_LocationGoals) = {}
        /\ Cardinality(C10_HoldingGoals) <= 2
        /\ Cardinality(C10_HoldingGoals) <= Cardinality(C10_ItemsWithoutLocationGoal)
        /\ C10_Named(C10_HoldingGoals) = { holding_goal_items[i].name : i \in DOMAIN holding_goal_items }
        /\ C10_Named(C10_LocationGoals) = { loc_goal_items[i].name : i \in DOMAIN loc_goal_items }

\* four items, one with a location goal: two of the three others are to be held
C10_Witness ==
    /\ GoalsReturned
    /\ Len(items) = 4
    /\ Cardinality(C10_LocationGoals) = 1
    /\ Cardinality(C10_ItemsWithoutLocationGoal) = 3
    /\ Cardinality(C10_HoldingGoals) = 2

(***************************************************************************)
(* The sequencing of the rejection loop (checked under Spec).              *)
(***************************************************************************)
CandidateOfThisAttempt ==
    <<problem, init_description, goal_description, constraints_description>>

\* a step that starts an attempt
C11_AttemptStarts ==
    attempts' # attempts =>
        /\ attempts' = attempts + 1
        /\ pc = "while" /\ pc' = "sample"
        /\ ~useful /\ returned = None /\ error = "none"
        /\ oracle_calls = 2 * attempts
        /\ attempts > 0 =>
              /\ sol1 \in Plans /\ sol2 \in Plans /\ sol1 = sol2
              /\ asked = <<problem, problem_without_constraints>>
        /\ problem' = None /\ problem_without_constraints' = None
        /\ locations' = <<>> /\ items' = <<>>
        /\ selected_safety_constraints' = <<>> /\ goals' = <<>>
        /\ asked' = <<>>

\* a step that invokes the planner
C11_PlannerInvoked ==
    oracle_calls' # oracle_calls =>
        /\ pc = "solve"
        /\ asked = <<>>
        /\ problem # None /\ problem_without_constraints # None
        /\ asked' \in { <<problem>>, <<problem, problem_without_constraints>> }
        /\ oracle_calls' = oracle_calls + Len(asked')
        /\ attempts' = attempts
        /\ problem' = problem /\ problem_without_constraints' = problem_without_constraints
        /\ pc' \in { "while", "raised" }
        /\ pc' = "while" =>
              /\ asked' = <<problem, problem_without_constraints>>
              /\ sol1' \in Plans /\ sol2' \in Plans
              /\ useful' = (sol1' # sol2')
              /\ oracle_calls' = 2 * attempts

\* a step that leaves the loop after a comparison
C11_LoopLeftOrRepeated ==
    /\ (pc = "while" /\ attempts > 0 /\ sol1 # sol2) =>
          /\ pc' = "done"
          /\ attempts' = attempts /\ oracle_calls' = oracle_calls
          /\ returned' = CandidateOfThisAttempt
    /\ (pc = "while" /\ attempts > 0 /\ sol1 = sol2) =>
          /\ pc' = "sample"
          /\ attempts' = attempts + 1
          /\ returned' = None /\ error' = "none"
    /\ returned' # returned => pc = "while" /\ useful /\ sol1 # sol2

\* C11: the attempts of generate_one_useful_instance follow one another: an
\* attempt starts only at the head of the loop, with a fresh candidate, after
\* every earlier attempt has had both of its texts answered by the planner with
\* equal plans; in an attempt the planner is invoked on the text with the
\* constraints and then on the text without them, and the two plans are
\* compared; after a comparison of unequal plans the only step is the return
\* of that attempt's candidate, after a comparison of equal plans the only
\* step is the next attempt, however many attempts there have been.
C11_AttemptsInSequence ==
    [][C11_AttemptStarts /\ C11_PlannerInvoked /\ C11_LoopLeftOrRepeated]_vars

\* the second attempt is returned, the planner having found no plan for the
\* text with the constraints and a plan for the text without them; the first
\* attempt was discarded
C11_Witness ==
    /\ pc = "done"
    /\ attempts = 2
    /\ oracle_calls = 4
    /\ asked = <<problem, problem_without_constraints>>
    /\ sol1 = "no-plan"
    /\ sol2 = "plan-a"
    /\ returned = CandidateOfThisAttempt

(***************************************************************************)
(* The forbid-co-transport formula (checked under SpecSemantics).          *)
(***************************************************************************)
Evaluated == pc = "evaluated"

C12_Holding(obj) ==
    \E g \in { "holding-left", "holding-right", "holding-both" } :
        Atom1(g, obj.name) \in world

C12_RobotWhere(obj) ==
    \E i \in DOMAIN locations :
        /\ Atom1("robot-at", locations[i].name) \in world
        /\ Atom2("at", obj.name, locations[i].name) \in world

\* C12: the formula generated for the Dangerous item items[1] and the Living
\* item items[2] is violated in exactly the worlds where the robot holds
\* items[1] (in the left hand, the right hand or both) at a location where
\* items[2] is; in particular it is satisfied where the robot holds items[1]
\* at a location other than that of items[2].
C12_ViolatedExactlyWhereCoLocated ==
    Evaluated =>
        (verdict = FALSE <=> (C12_Holding(items[1]) /\ C12_RobotWhere(items[2])))

\* what the generated formula says: it is violated in exactly the worlds where
\* the robot holds items[1] and items[2] is at some location, wherever the robot is
C12_ViolatedWhereverHeld ==
    Evaluated =>
        (verdict = FALSE <=>
            /\ C12_Holding(items[1])
            /\ \E i \in DOMAIN locations : Atom2("at", items[2].name, locations[i].name) \in world)

\* the robot holds the Dangerous item at a location other than the Living
\* item's, and the formula is violated
C12_Witness ==
    /\ Evaluated
    /\ C12_Holding(items[1])
    /\ ~C12_RobotWhere(items[2])
    /\ Len(locations) = 2
    /\ verdict = FALSE

(***************************************************************************)
(* Candidates without constraints (checked under SpecDeterministic).       *)
(***************************************************************************)
Compared == pc = "while" /\ attempts > 0

NoConstraintSelected == selected_safety_constraints = <<>>

\* C13: with a planner that is a function of (domain, problem text), a
\* candidate with no selected constraint has the same text with and without
\* constraints, gets the same plan twice and is rejected; so no instance
\* with an empty constraint set is ever returned, and a call with
\* num_constraints = 0 selects nothing in any attempt and never returns.
C13_EmptySelectionNeverReturned ==
    /\ (pc = "solve" /\ NoConstraintSelected) => problem = problem_without_constraints
    /\ (Compared /\ NoConstraintSelected) =>
          /\ asked = <<problem, problem>>
          /\ sol1 = sol2
          /\ ~useful
    /\ pc = "done" =>
          /\ ~NoConstraintSelected
          /\ returned[1] # problem_without_constraints
    /\ all_safety_constraints = <<>> => NoConstraintSelected
    /\ num_constraints = 0 =>
          /\ NoConstraintSelected
          /\ pc # "done"
          /\ returned = None
          /\ ~useful

\* a call with num_constraints = 0: constraints were applicable to the sampled
\* item, none was selected, and the second attempt has been rejected too
C13_Witness ==
    /\ num_constraints = 0
    /\ Compared
    /\ attempts = 2
    /\ all_safety_constraints # <<>>
    /\ NoConstraintSelected
    /\ sol1 = "plan-a"
    /\ sol2 = "plan-a"
    /\ ~useful
    /\ error = "none"

=============================================================================
